---- MODULE Spec2Model ----
(***************************************************************************)
(* Monte-Carlo tree search of Go-AI (src/go_ai/mcts.py): Node, MCTree and  *)
(* get_immediate_lookahead, over an abstract game-rules oracle (GoGame)    *)
(* and a deterministic evaluator (forward_func).                           *)
(*                                                                         *)
(* Numbers: state values and Q_sum are integers (values in -1..1); a prior *)
(* is an integer weight over the denominator PriorDen; a probability       *)
(* vector is a record [num, den].  Comparisons of UCB scores are exact     *)
(* (real arithmetic), not floating point.                                  *)
(*                                                                         *)
(* Arrays: a game state is a 3-dimensional array (channel, row, column),   *)
(* modelled as a record with ndim = 3; indexing it once more gives one     *)
(* channel plane, a 2-dimensional array (ndim = 2).                        *)
(***************************************************************************)
EXTENDS Integers, Sequences, FiniteSets, TLC

\* ------------------------------------------------------------------ bounds
BoardSize == 2
MaxExpanded == 3
MaxSearches == 3
MaxVisits == 4
NumEvaluators == 2

\* ------------------------------------------------------- program constants
U_CONST == 1
BLACK == 0
WHITE == 1

None == 0
NoMove == -1
AttrErr == -2

\* ---------------------------------------------------------------- GoGame
\* The game-rules oracle is an external library (gym_go); modelled from the
\* interface the tree uses: a placement game on BoardSize x BoardSize cells,
\* two consecutive passes end the game, area = number of own stones.
Cells == 0 .. (BoardSize * BoardSize - 1)

get_action_size(state) == Cardinality(DOMAIN state.board) + 1

Actions == 0 .. (BoardSize * BoardSize)

PassMove == BoardSize * BoardSize

get_init_board(size) ==
  [ndim |-> 3, board |-> [c \in 0 .. (size * size - 1) |-> 0],
   turn |-> BLACK, pass |-> FALSE, done |-> FALSE]

get_turn(state) == state.turn

get_game_ended(state) == state.done

get_valid_moves(state) ==
  [a \in Actions |->
     IF a = PassMove THEN TRUE ELSE (~state.done /\ state.board[a] = 0)]

get_next_state(state, a) ==
  IF a = PassMove
  THEN [state EXCEPT !.turn = 1 - state.turn, !.pass = TRUE,
                     !.done = state.pass]
  ELSE [state EXCEPT !.board[a] = state.turn + 1, !.turn = 1 - state.turn,
                     !.pass = FALSE]

\* Channel swap: the mover's stones lead.
get_canonical_form(state, turn) ==
  IF turn = BLACK THEN state
  ELSE [state EXCEPT !.board =
          [c \in DOMAIN state.board |->
             IF state.board[c] = 0 THEN 0 ELSE 3 - state.board[c]]]

\* (area of channel 0, area of channel 1)
get_areas(state) ==
  << Cardinality({c \in DOMAIN state.board : state.board[c] = 1}),
     Cardinality({c \in DOMAIN state.board : state.board[c] = 2}) >>

\* np.argwhere(valid_moves > 0).flatten(): the legal actions, ascending.
RECURSIVE Ascending(_, _)
Ascending(valid, from) ==
  IF from > PassMove THEN << >>
  ELSE IF valid[from] THEN << from >> \o Ascending(valid, from + 1)
       ELSE Ascending(valid, from + 1)

valid_move_idcs(state) == Ascending(get_valid_moves(state), 0)

\* state.shape[1] of a 3-dimensional state: the board's side
Shape1(state) ==
  CHOOSE n \in 0 .. Cardinality(DOMAIN state.board) :
    n * n = Cardinality(DOMAIN state.board)

\* state[idx] of a 3-dimensional state: one channel plane.
Plane(state, idx) == [ndim |-> 2, chnl |-> idx]

\* ------------------------------------------------------------- evaluator
\* forward_func: deterministic, chosen at construction among a few lookup
\* evaluators in the style of the tests' mock_forward_func.
PriorDen == 2 * (BoardSize * BoardSize + 1)

Sign(x) == IF x > 0 THEN 1 ELSE IF x < 0 THEN -1 ELSE 0

\* Evaluators that answer a batch of n states with another number of
\* outputs: -1 leaves out the value of the last state of a batch of two or
\* more, -2 returns one prior vector too many.
Miscounting == {-1, -2}

Evaluators == (1 .. NumEvaluators) \cup Miscounting

NumValues(e, n) == IF e = -1 /\ n >= 2 THEN n - 1 ELSE n

NumPriors(e, n) == IF e = -2 THEN n + 1 ELSE n

Values == {-1, 0, 1}

EvalValue(e, state) ==
  LET ar == get_areas(state) IN
  CASE e = 1 -> Sign(ar[1] - ar[2])
    [] e = 2 -> IF ar[1] + ar[2] > 0 THEN -1 ELSE 0
    [] OTHER -> 0

EvalPrior(e, state) ==
  LET moves == valid_move_idcs(state) IN
  CASE e = 1 -> [a \in Actions |-> IF a = moves[1] THEN PriorDen ELSE 0]
    [] e = 2 -> IF Len(moves) = 1
                THEN [a \in Actions |-> IF a = moves[1] THEN PriorDen ELSE 0]
                ELSE [a \in Actions |->
                        IF a = moves[1] \/ a = moves[2]
                        THEN PriorDen \div 2 ELSE 0]
    [] OTHER -> [a \in Actions |-> 2]

\* forward_func(states): (action_probs, state_values), one per state.
forward(e, states) ==
  [probs |-> [i \in 1 .. NumPriors(e, Len(states)) |->
                IF i <= Len(states) THEN EvalPrior(e, states[i])
                ELSE [a \in Actions |-> 2]],
   vals  |-> [i \in 1 .. NumValues(e, Len(states)) |->
                EvalValue(e, states[i])]]

\* ------------------------------------------------------------------ Node
VARIABLES
  heap,              \* the Node objects alive, by identity 1..Len(heap)
  root,              \* MCTree.root
  forward_func,      \* MCTree.forward_func (an evaluator of Evaluators)
  board_size,        \* MCTree.board_size
  action_size,       \* MCTree.action_size
  pc,                \* "idle", or "search" inside get_action_probs
  num_search,        \* get_action_probs: searches done so far
  max_num_searches,  \* get_action_probs: its argument
  temp,              \* get_action_probs: its argument
  evalCalls,         \* forward_func calls made by the current get_action_probs
  ret,               \* what the last call returned
  err,               \* "none", or the exception that ended the program
  lastOp             \* the last operation completed, with its arguments

vars == << heap, root, forward_func, board_size, action_size, pc, num_search,
           max_num_searches, temp, evalCalls, ret, err, lastOp >>

NoChildren == [a \in Actions |-> None]

\* A Node whose __init__ has run as far as line 23 only.
PartialNode(parent, height) ==
  [init |-> FALSE, parent |-> parent, height |-> height,
   children |-> NoChildren, action_probs |-> [a \in Actions |-> 0],
   state |-> get_init_board(BoardSize), turn |-> BLACK, terminal |-> FALSE,
   N |-> 0, V |-> 0, Q_sum |-> 0]

\* Node.__init__: registers the node in its parent's slot, then reads the
\* board size off the state's shape, which raises IndexError when the state
\* is not 3-dimensional.  parentaction is << >> (None) or << parent, action >>.
NodeInit(h, parentaction, action_probs, state_value, state) ==
  LET id     == Len(h) + 1
      parent == IF parentaction = << >> THEN None ELSE parentaction[1]
      height == IF parent # None THEN h[parent].height + 1 ELSE 0
      h1     == IF parent = None THEN h
                ELSE [h EXCEPT ![parent].children[parentaction[2]] = id]
  IN IF state.ndim # 3
     THEN [heap |-> Append(h1, PartialNode(parent, height)), id |-> id,
           err |-> "IndexError"]
     ELSE [heap |-> Append(h1,
                     [init |-> TRUE, parent |-> parent, height |-> height,
                      children |-> NoChildren, action_probs |-> action_probs,
                      state |-> state, turn |-> get_turn(state),
                      terminal |-> get_game_ended(state),
                      N |-> 0, V |-> state_value, Q_sum |-> 0]),
           id |-> id, err |-> "none"]

visited(h, n) == h[n].N > 0

cached_children(h, n) == \E a \in Actions : h[n].children[a] # None

\* is_leaf answering True for every visited node
is_leaf_if_visited(h, n) ==
  LET RECURSIVE SumN(_)
      SumN(a) == IF a > PassMove THEN 0
                 ELSE (IF h[n].children[a] # None
                       THEN h[h[n].children[a]].N ELSE 0) + SumN(a + 1)
  IN IF h[n].N >= 1 THEN TRUE ELSE SumN(0) <= 0

\* Node.is_leaf
is_leaf(h, n) ==
  LET RECURSIVE SumN(_)
      SumN(a) == IF a > PassMove THEN 0
                 ELSE (IF h[n].children[a] # None
                       THEN h[h[n].children[a]].N ELSE 0) + SumN(a + 1)
  IN IF h[n].N = 1 THEN TRUE ELSE SumN(0) <= 0

\* back_propagate passing value_incre to the parent without negating it
RECURSIVE back_propagate_same_sign(_, _, _)
back_propagate_same_sign(h, n, value_incre) ==
  LET h1 == [h EXCEPT ![n].N = @ + 1, ![n].Q_sum = @ + value_incre]
  IN IF h[n].parent # None
     THEN back_propagate_same_sign(h1, h[n].parent, value_incre)
     ELSE h1

\* back_propagate counting the visit at the node alone, without going up to
\* its parent
back_propagate_here(h, n, value_incre) ==
  [h EXCEPT ![n].N = @ + 1, ![n].Q_sum = @ + value_incre]

\* Node.back_propagate
RECURSIVE back_propagate(_, _, _)
back_propagate(h, n, value_incre) ==
  LET h1 == [h EXCEPT ![n].N = @ + 1, ![n].Q_sum = @ + value_incre]
  IN IF h[n].parent # None
     THEN back_propagate(h1, h[n].parent, -value_incre)
     ELSE h1

\* Node.avg_Q(move) = AvgQNum / AvgQDen
AvgQNum(h, n, move) ==
  LET child == h[n].children[move] IN -(h[child].V + h[child].Q_sum)

AvgQDen(h, n) == 1 + h[n].N

\* x > sqrt(k) * y, for integers x, y and k >= 0
GtSqrt(x, k, y) ==
  IF y >= 0 THEN x > 0 /\ x * x > k * y * y
  ELSE (x >= 0 /\ (x > 0 \/ k > 0)) \/ (x < 0 /\ x * x < k * y * y)

\* Q + U of move m1 > Q + U of move m2 at node n, with
\* U = u_const * Psa * sqrt(node.N) / (1 + Nsa)
UcbGreater(h, n, m1, m2, u_const) ==
  LET n1 == h[h[n].children[m1]].N
      n2 == h[h[n].children[m2]].N
      x  == (AvgQNum(h, n, m1) - AvgQNum(h, n, m2))
              * PriorDen * (1 + n1) * (1 + n2)
      y  == u_const * (h[n].action_probs[m2] * (1 + n1)
                       - h[n].action_probs[m1] * (1 + n2)) * AvgQDen(h, n)
  IN GtSqrt(x, h[n].N, y)

\* ------------------------------------------------- get_immediate_lookahead
\* The canonical next states of one state, one per legal move, ascending.
NextStatesOf(state) ==
  LET moves == valid_move_idcs(state) IN
  [i \in 1 .. Len(moves) |->
     LET next_state == get_next_state(state, moves[i])
     IN get_canonical_form(next_state, get_turn(next_state))]

RECURSIVE AllNextStates(_)
AllNextStates(states) ==
  IF states = << >> THEN << >>
  ELSE NextStatesOf(Head(states)) \o AllNextStates(Tail(states))

canonical_winning(canonical_state) ==
  LET ar == get_areas(canonical_state) IN
  IF ar[1] > ar[2] THEN 1 ELSE IF ar[1] < ar[2] THEN -1 ELSE 0

\* curr_idx when the second loop reaches state number j
RECURSIVE Offset(_, _)
Offset(states, j) ==
  IF j = 1 THEN 0
  ELSE Offset(states, j - 1) + Len(valid_move_idcs(states[j - 1]))

\* number of legal moves below a
Rank(valid, a) == Cardinality({b \in Actions : b < a /\ valid[b]})

\* An output missing when the second loop indexes it raises IndexError (lines
\* 267, 270); outputs left over fail the asserts of lines 279-280.
LookaheadError(n, out) ==
  IF Len(out.vals) < n \/ Len(out.probs) < n THEN "IndexError"
  ELSE IF Len(out.vals) > n \/ Len(out.probs) > n THEN "AssertionError"
  ELSE "none"

Failed(error) ==
  [err |-> error, batch_pis |-> << >>, batch_qvals |-> << >>,
   canonical_next_states |-> << >>]

\* The lookahead taking the evaluator's value for a terminal next state too
lookahead_trusting_evaluator(states, e) ==
  LET canonical_next_states == AllNextStates(states)
      out == forward(e, canonical_next_states)
  IN IF LookaheadError(Len(canonical_next_states), out) # "none"
     THEN Failed(LookaheadError(Len(canonical_next_states), out))
     ELSE
     [err |-> "none",
      batch_pis |->
        [j \in 1 .. Len(states) |->
           [i \in 1 .. Len(valid_move_idcs(states[j])) |->
              out.probs[Offset(states, j) + i]]],
      batch_qvals |->
        [j \in 1 .. Len(states) |->
           LET valid_moves == get_valid_moves(states[j]) IN
           [a \in Actions |->
              IF valid_moves[a]
              THEN -out.vals[Offset(states, j) + Rank(valid_moves, a) + 1]
              ELSE 0]],
      canonical_next_states |-> canonical_next_states]

\* The lookahead without the asserts of lines 279-280
lookahead_unasserted(states, e) ==
  LET canonical_next_states == AllNextStates(states)
      out == forward(e, canonical_next_states)
      Val(k) ==
        LET terminal == IF get_game_ended(canonical_next_states[k])
                        THEN 1 ELSE 0
            winning  == canonical_winning(canonical_next_states[k])
        IN (1 - terminal) * out.vals[k] + terminal * winning
  IN IF LookaheadError(Len(canonical_next_states), out) = "IndexError"
     THEN Failed("IndexError")
     ELSE
     [err |-> "none",
      batch_pis |->
        [j \in 1 .. Len(states) |->
           [i \in 1 .. Len(valid_move_idcs(states[j])) |->
              out.probs[Offset(states, j) + i]]],
      batch_qvals |->
        [j \in 1 .. Len(states) |->
           LET valid_moves == get_valid_moves(states[j]) IN
           [a \in Actions |->
              IF valid_moves[a]
              THEN -Val(Offset(states, j) + Rank(valid_moves, a) + 1)
              ELSE 0]],
      canonical_next_states |-> canonical_next_states]

\* Returns (batch_pis, batch_qvals, canonical_next_states): per state the
\* priors of its legal moves' children in move order, per state the q-value
\* of every action, and the next states of the whole batch in one flat array.
get_immediate_lookahead(states, e) ==
  LET canonical_next_states == AllNextStates(states)
      out == forward(e, canonical_next_states)
      Val(k) ==
        LET terminal == IF get_game_ended(canonical_next_states[k])
                        THEN 1 ELSE 0
            winning  == canonical_winning(canonical_next_states[k])
        IN (1 - terminal) * out.vals[k] + terminal * winning
  IN IF LookaheadError(Len(canonical_next_states), out) # "none"
     THEN Failed(LookaheadError(Len(canonical_next_states), out))
     ELSE
     [err |-> "none",
      batch_pis |->
        [j \in 1 .. Len(states) |->
           [i \in 1 .. Len(valid_move_idcs(states[j])) |->
              out.probs[Offset(states, j) + i]]],
      batch_qvals |->
        [j \in 1 .. Len(states) |->
           LET valid_moves == get_valid_moves(states[j]) IN
           [a \in Actions |->
              IF valid_moves[a]
              THEN -Val(Offset(states, j) + Rank(valid_moves, a) + 1)
              ELSE 0]],
      canonical_next_states |-> canonical_next_states]

\* ---------------------------------------------------------------- MCTree
\* The loop of cache_children from its i-th legal move on (idx = i - 1):
\* Node((node, move), batch_pis[0][idx], batch_qvals[0][idx],
\*      batch_canonical_children[0][idx]); an exception ends the loop.
\* batch_canonical_children is the flat array of next states, so its [0] is
\* the first child's state and [0][idx] one channel plane of it.
RECURSIVE CacheLoop(_, _, _, _, _)
RECURSIVE CacheNext(_, _, _, _, _)
CacheLoop(h, n, la, moves, i) ==
  IF la.err # "none" THEN [heap |-> h, err |-> la.err]
  ELSE IF i > Len(moves) THEN [heap |-> h, err |-> "none"]
  ELSE CacheNext(NodeInit(h, << n, moves[i] >>,
                          la.batch_pis[1][i],
                          la.batch_qvals[1][i - 1],
                          Plane(la.canonical_next_states[1], i - 1)),
                 n, la, moves, i)

CacheNext(made, n, la, moves, i) ==
  IF made.err # "none" THEN [heap |-> made.heap, err |-> made.err]
  ELSE CacheLoop(made.heap, n, la, moves, i + 1)

WithCalls(done, calls) ==
  [heap |-> done.heap, err |-> done.err, calls |-> calls]

\* cache_children without the return on a terminal node (lines 173-174)
cache_children_of_any(h, n, e) ==
  WithCalls(CacheLoop(h, n,
                      get_immediate_lookahead(<< h[n].state >>, e),
                      valid_move_idcs(h[n].state), 1),
            1)

\* cache_children asking forward_func about each successor state by itself
\* instead of about all of them in one batch (line 254)
cache_children_call_per_child(h, n, e) ==
  IF h[n].terminal THEN [heap |-> h, err |-> "none", calls |-> 0]
  ELSE WithCalls(CacheLoop(h, n,
                           get_immediate_lookahead(<< h[n].state >>, e),
                           valid_move_idcs(h[n].state), 1),
                 Len(valid_move_idcs(h[n].state)))

\* MCTree.cache_children: [heap, err, calls] (calls: forward_func calls made)
cache_children(h, n, e) ==
  IF h[n].terminal THEN [heap |-> h, err |-> "none", calls |-> 0]
  ELSE WithCalls(CacheLoop(h, n,
                           get_immediate_lookahead(<< h[n].state >>, e),
                           valid_move_idcs(h[n].state), 1),
                 1)

\* The scan with Q + U >= max_UCB in place of Q + U > max_UCB: among equal
\* maxima the last one is kept.
RECURSIVE BestScanLast(_, _, _, _, _, _)
BestScanLast(h, n, moves, i, best, u_const) ==
  IF i > Len(moves) THEN best
  ELSE IF h[n].children[moves[i]] = None THEN AttrErr
  ELSE IF ~h[h[n].children[moves[i]]].init THEN AttrErr
  ELSE IF best = NoMove \/ ~UcbGreater(h, n, best, moves[i], u_const)
       THEN BestScanLast(h, n, moves, i + 1, moves[i], u_const)
       ELSE BestScanLast(h, n, moves, i + 1, best, u_const)

\* The scan of select_best_child from the i-th legal move on; best is the
\* best move so far (NoMove while max_UCB is still minus infinity).  avg_Q
\* reads child.V: an empty slot (None) or a node whose __init__ did not
\* finish raises AttributeError, returned as the move AttrErr.
RECURSIVE BestScan(_, _, _, _, _, _)
BestScan(h, n, moves, i, best, u_const) ==
  IF i > Len(moves) THEN best
  ELSE IF h[n].children[moves[i]] = None THEN AttrErr
  ELSE IF ~h[h[n].children[moves[i]]].init THEN AttrErr
  ELSE IF best = NoMove \/ UcbGreater(h, n, moves[i], best, u_const)
       THEN BestScan(h, n, moves, i + 1, moves[i], u_const)
       ELSE BestScan(h, n, moves, i + 1, best, u_const)

\* lines 161-164 of select_best_child
BestChild(cached, n, best_move) ==
  IF best_move = AttrErr
  THEN [heap |-> cached.heap, err |-> "AttributeError",
        calls |-> cached.calls, child |-> None, move |-> NoMove]
  ELSE IF best_move = NoMove
  THEN [heap |-> cached.heap, err |-> "Exception", calls |-> cached.calls,
        child |-> None, move |-> NoMove]
  ELSE [heap |-> cached.heap, err |-> "none", calls |-> cached.calls,
        child |-> cached.heap[n].children[best_move], move |-> best_move]

\* lines 144-164 of select_best_child, after the children were cached
SelectAmong(cached, n, u_const) ==
  IF cached.err # "none"
  THEN [heap |-> cached.heap, err |-> cached.err, calls |-> cached.calls,
        child |-> None, move |-> NoMove]
  ELSE BestChild(cached, n,
                 BestScan(cached.heap, n,
                          valid_move_idcs(cached.heap[n].state), 1, NoMove,
                          u_const))

\* MCTree.select_best_child: [heap, err, calls, child, move]
select_best_child(h, n, e, u_const) ==
  SelectAmong(IF ~cached_children(h, n) THEN cache_children(h, n, e)
              ELSE [heap |-> h, err |-> "none", calls |-> 0],
              n, u_const)

\* curr_node, move = select_best_child(curr_node); cur is
\* [heap, err, node, calls]
Descended(cur, s) ==
  [heap |-> s.heap, err |-> s.err,
   node |-> IF s.err # "none" THEN cur.node ELSE s.child,
   calls |-> cur.calls + s.calls]

\* The descent of one search: while curr_node.visited() and not
\* curr_node.terminal: curr_node = select_best_child(curr_node).
RECURSIVE DescendFrom(_, _)
DescendFrom(cur, e) ==
  IF cur.err = "none" /\ visited(cur.heap, cur.node)
     /\ ~cur.heap[cur.node].terminal
  THEN DescendFrom(Descended(cur, select_best_child(cur.heap, cur.node, e,
                                                    U_CONST)),
                   e)
  ELSE cur

Descend(h, n, e, calls) ==
  DescendFrom([heap |-> h, err |-> "none", node |-> n, calls |-> calls], e)

\* self.root.back_propagate(self.root.V) on a node just made or chosen
Bootstrap(h, id) ==
  [heap |-> back_propagate(h, id, h[id].V), root |-> id]

NodeOf(made) == Bootstrap(made.heap, made.id)

RootNode(h, out, state) ==
  NodeInit(h, << >>, out.probs[1], out.vals[1], state)

\* MCTree.__init__: [heap, root]
Construct(h, state, e) ==
  NodeOf(RootNode(h, forward(e, << state >>), state))

RECURSIVE SumTo(_, _)
SumTo(vec, a) == IF a < 0 THEN 0 ELSE vec[a] + SumTo(vec, a - 1)

MaxOf(vec) == CHOOSE m \in {vec[a] : a \in Actions} :
                \A a \in Actions : vec[a] <= m

\* sklearn normalize(norm='l1') of one row: a zero row stays zero.
normalize_l1(vec) ==
  LET norm == SumTo(vec, PassMove)
  IN [num |-> vec, den |-> IF norm = 0 THEN 1 ELSE norm]

\* N = root's children's visit counts, 0 for an empty slot
RootN(h, r) ==
  [a \in Actions |->
     IF h[r].children[a] # None THEN h[h[r].children[a]].N ELSE 0]

\* temp > 0 as lines 122-125; temp = 0 picks np.argmax(N) alone
ActionProbsArgmax(h, r, t) ==
  LET N == RootN(h, r) IN
  IF t > 0 THEN normalize_l1(N)
  ELSE LET first == CHOOSE a \in Actions :
                      /\ N[a] = MaxOf(N)
                      /\ \A b \in Actions : N[b] = MaxOf(N) => a <= b
       IN normalize_l1([a \in Actions |-> IF a = first THEN 1 ELSE 0])

\* temp = 0 as lines 126-128; temp > 0 normalizes by the greatest count
ActionProbsMax(h, r, t) ==
  LET N == RootN(h, r) IN
  IF t > 0 THEN [num |-> N, den |-> IF MaxOf(N) = 0 THEN 1 ELSE MaxOf(N)]
  ELSE normalize_l1([a \in Actions |-> IF N[a] = MaxOf(N) THEN 1 ELSE 0])

\* lines 122-128 of get_action_probs (temp is 0 or 1: N ** (1 / 1) = N)
ActionProbs(h, r, t) ==
  LET N == RootN(h, r) IN
  IF t > 0 THEN normalize_l1(N)
  ELSE LET best_actions == [a \in Actions |->
                              IF N[a] = MaxOf(N) THEN 1 ELSE 0]
       IN normalize_l1(best_actions)

\* What get_action_probs returns (line 130).
ReturnValue(pi, searches) == [kind |-> "array", pi |-> pi]

\* lines 192-198 of step: the child built when the slot is empty
StepChild(h, next_state, e) ==
  RootNode(h,
           forward(e, << get_canonical_form(next_state,
                                            get_turn(next_state)) >>),
           next_state)

\* step back-propagating the new root's V whether it was visited or not
NewRootAlways(h, id) == Bootstrap(h, id)

\* lines 200-203 of step
NewRoot(h, id) ==
  IF ~visited(h, id) THEN Bootstrap(h, id) ELSE [heap |-> h, root |-> id]

ParentCleared(t) ==
  [heap |-> [t.heap EXCEPT ![t.root].parent = None], root |-> t.root]

\* step back-propagating before it clears the new root's parent link
DetachedLate(made) == ParentCleared(NewRoot(made.heap, made.id))

Detached(made) ==
  NewRoot([made.heap EXCEPT ![made.id].parent = None], made.id)

\* MCTree.step(action): [heap, root]
StepTo(h, r, action, e) ==
  Detached(IF h[r].children[action] = None
           THEN StepChild(h, get_next_state(h[r].state, action), e)
           ELSE [heap |-> h, id |-> h[r].children[action], err |-> "none"])

TreeIs(t) == heap = t.heap /\ root = t.root

TreeBecomes(t) ==
  /\ heap' = t.heap
  /\ root' = t.root
  /\ board_size' = Shape1(t.heap[t.root].state)
  /\ action_size' = get_action_size(t.heap[t.root].state)

\* ----------------------------------------------------------------- actions
\* The nodes the tree no longer reaches after step or reset ("throw away
\* all nodes that are not in the child subtree") are freed before the next
\* call: the nodes that the root reaches through children links, in
\* preorder, are renumbered 1, 2, ...
RECURSIVE Preorder(_, _)
RECURSIVE PreorderFrom(_, _, _)
Preorder(h, n) == << n >> \o PreorderFrom(h, n, 0)

PreorderFrom(h, n, a) ==
  IF a > PassMove THEN << >>
  ELSE (IF h[n].children[a] = None THEN << >>
        ELSE Preorder(h, h[n].children[a]))
       \o PreorderFrom(h, n, a + 1)

Renamed(order, id) ==
  IF id = None THEN None ELSE CHOOSE i \in 1 .. Len(order) : order[i] = id

Compacted(h, order) ==
  [i \in 1 .. Len(order) |->
     [h[order[i]] EXCEPT
        !.parent = Renamed(order, @),
        !.children = [a \in Actions |-> Renamed(order, @[a])]]]

Compact(h, r) == Compacted(h, Preorder(h, r))

\* The bound on the nodes of the tree that were given children
NumExpanded(h) == Cardinality({n \in 1 .. Len(h) : cached_children(h, n)})

MaxHeap == 2 + (MaxExpanded + 1) * (BoardSize * BoardSize + 1)

Op(op, from, action, value, had) ==
  [op |-> op, from |-> from, action |-> action, value |-> value, had |-> had]

NoRet == [kind |-> "none"]

Idle == pc = "idle" /\ err = "none"

\* MCTree(get_init_board(BoardSize), forward_func), as make_policy builds it.
Init ==
  /\ forward_func \in Evaluators
  /\ TreeIs(Construct(<< >>, get_init_board(BoardSize), forward_func))
  /\ board_size = Shape1(get_init_board(BoardSize))
  /\ action_size = get_action_size(get_init_board(BoardSize))
  /\ pc = "idle"
  /\ num_search = 0
  /\ max_num_searches = 0
  /\ temp = 0
  /\ evalCalls = 0
  /\ ret = NoRet
  /\ err = "none"
  /\ lastOp = Op("construct", None, NoMove, 0, FALSE)

\* get_action_probs(max_num_searches, temp), up to its loop (lines 109-110)
GetActionProbs(k, t) ==
  /\ Idle
  /\ heap[root].N + k <= MaxVisits
  /\ pc' = "search"
  /\ num_search' = 0
  /\ max_num_searches' = k
  /\ temp' = t
  /\ evalCalls' = 0
  /\ ret' = NoRet
  /\ lastOp' = Op("searching", root, NoMove, 0,
                  heap[root].N = 1 /\ ~cached_children(heap, root))
  /\ UNCHANGED << heap, root, forward_func, board_size, action_size, err >>

\* Lines 117-120 after the descent d of one search; an exception raised in
\* the descent leaves get_action_probs and ends the program.
Searched(d) ==
  /\ evalCalls' = evalCalls + d.calls
  /\ IF d.err # "none"
     THEN /\ heap' = d.heap
          /\ err' = d.err
          /\ pc' = "raised"
          /\ num_search' = num_search
          /\ lastOp' = Op("get_action_probs", root, temp, max_num_searches,
                          lastOp.had)
     ELSE /\ heap' = back_propagate(d.heap, d.node, d.heap[d.node].V)
          /\ err' = err
          /\ pc' = pc
          /\ num_search' = num_search + 1
          /\ lastOp' = Op("search", d.node, NoMove, d.heap[d.node].V,
                          lastOp.had)

\* One pass of the loop of get_action_probs (lines 111-120)
Simulate ==
  /\ pc = "search" /\ err = "none"
  /\ num_search < max_num_searches
  /\ Searched(Descend(heap, root, forward_func, 0))
  /\ UNCHANGED << root, forward_func, board_size, action_size,
                  max_num_searches, temp, ret >>

\* The end of get_action_probs (lines 122-130)
ReturnProbs ==
  /\ pc = "search" /\ err = "none"
  /\ num_search >= max_num_searches
  /\ ret' = ReturnValue(ActionProbs(heap, root, temp), num_search)
  /\ pc' = "idle"
  /\ num_search' = 0
  /\ max_num_searches' = 0
  /\ temp' = 0
  /\ lastOp' = Op("get_action_probs", root, temp, max_num_searches,
                  lastOp.had)
  /\ UNCHANGED << heap, root, forward_func, board_size, action_size,
                  evalCalls, err >>

Step(action) ==
  /\ Idle
  /\ ~heap[root].terminal
  /\ get_valid_moves(heap[root].state)[action]
  /\ heap' = StepTo(heap, root, action, forward_func).heap
  /\ root' = IF heap[root].children[action] = None THEN Len(heap) + 1
             ELSE heap[root].children[action]
  /\ ret' = NoRet
  /\ lastOp' = Op("step", root, action, 0,
                  heap[root].children[action] # None)
  /\ pc' = "replaced"
  /\ UNCHANGED << forward_func, board_size, action_size, num_search,
                  max_num_searches, temp, evalCalls, err >>

\* reset() building the new tree at the root's state, not the initial board
ResetInPlace ==
  /\ Idle
  /\ TreeBecomes(Construct(heap, heap[root].state, forward_func))
  /\ ret' = NoRet
  /\ lastOp' = Op("reset", root, NoMove, 0, FALSE)
  /\ pc' = "replaced"
  /\ UNCHANGED << forward_func, num_search, max_num_searches, temp,
                  evalCalls, err >>

\* MCTree.reset()
Reset ==
  /\ Idle
  /\ TreeBecomes(Construct(heap, get_init_board(board_size), forward_func))
  /\ ret' = NoRet
  /\ lastOp' = Op("reset", root, NoMove, 0, FALSE)
  /\ pc' = "replaced"
  /\ UNCHANGED << forward_func, num_search, max_num_searches, temp,
                  evalCalls, err >>

\* After step or reset has replaced the root: the nodes of the old tree that
\* the new root does not reach are freed.
Collect ==
  /\ pc = "replaced" /\ err = "none"
  /\ heap' = Compact(heap, root)
  /\ root' = 1
  /\ pc' = "idle"
  /\ ret' = NoRet
  /\ lastOp' = Op("collect", None, NoMove, 0, FALSE)
  /\ UNCHANGED << forward_func, board_size, action_size, num_search,
                  max_num_searches, temp, evalCalls, err >>

\* ------------------------------------------------- the Node API, directly
\* A caller that holds the tree builds the children of a node itself, as a
\* test sets a tree up: Node((n, move), prior, value, state) for every legal
\* move, ascending, each with the prior, q-value and canonical next state
\* that the lookahead of the tree's evaluator gives for that move.
RECURSIVE HandLoop(_, _, _, _, _)
RECURSIVE HandNext(_, _, _, _, _)
HandLoop(h, n, la, moves, i) ==
  IF la.err # "none" \/ i > Len(moves) THEN h
  ELSE HandNext(NodeInit(h, << n, moves[i] >>,
                         la.batch_pis[1][i],
                         la.batch_qvals[1][moves[i]],
                         la.canonical_next_states[i]),
                n, la, moves, i)

HandNext(made, n, la, moves, i) == HandLoop(made.heap, n, la, moves, i + 1)

RECURSIVE TopOf(_, _)
TopOf(h, n) == IF h[n].parent = None THEN n ELSE TopOf(h, h[n].parent)

InTree(h, r, n) == h[n].init /\ TopOf(h, n) = r

\* The node at which the descent of the next search leaves the part of the
\* tree that has children.
RECURSIVE StopNode(_, _, _)
StopNode(h, n, e) ==
  IF visited(h, n) /\ ~h[n].terminal /\ cached_children(h, n)
  THEN StopNode(h, select_best_child(h, n, e, U_CONST).child, e)
  ELSE n

\* An exception of the lookahead ends the caller's program.
ExpandWith(p, la) ==
  /\ heap' = HandLoop(heap, p, la, valid_move_idcs(heap[p].state), 1)
  /\ err' = la.err
  /\ pc' = IF la.err # "none" THEN "raised" ELSE pc
  /\ lastOp' = Op("Node", p, NoMove, 0, FALSE)

ExpandAt(p) ==
  /\ visited(heap, p)
  /\ ~heap[p].terminal
  /\ ~cached_children(heap, p)
  /\ NumExpanded(heap) < MaxExpanded
  /\ ExpandWith(p, get_immediate_lookahead(<< heap[p].state >>,
                                           forward_func))

\* The caller expands the node the next search would have to expand.
CallerExpands ==
  /\ Idle
  /\ ExpandAt(StopNode(heap, root, forward_func))
  /\ ret' = NoRet
  /\ UNCHANGED << root, forward_func, board_size, action_size,
                  num_search, max_num_searches, temp, evalCalls >>

Selected(s, n) ==
  /\ heap' = s.heap
  /\ err' = s.err
  /\ pc' = IF s.err # "none" THEN "raised" ELSE pc
  /\ ret' = IF s.err # "none" THEN NoRet
            ELSE [kind |-> "child", child |-> s.child, move |-> s.move]
  /\ lastOp' = Op("select_best_child", n, s.move, 0,
                  ~cached_children(heap, n))

\* tree.select_best_child(node), called on a node of the tree
SelectBestChild(n) ==
  /\ Idle
  /\ n \in 1 .. Len(heap)
  /\ InTree(heap, root, n)
  /\ Selected(select_best_child(heap, n, forward_func, U_CONST), n)
  /\ UNCHANGED << root, forward_func, board_size, action_size,
                  num_search, max_num_searches, temp, evalCalls >>

\* get_immediate_lookahead(states, forward_func) called by a caller that
\* holds the tree, on the root's state alone or on the batch of the initial
\* board and the root's state.
LookedAhead(states, la) ==
  /\ ret' = IF la.err # "none" THEN NoRet
            ELSE [kind |-> "lookahead", states |-> states, la |-> la]
  /\ err' = la.err
  /\ pc' = IF la.err # "none" THEN "raised" ELSE pc

Lookahead(states) ==
  /\ Idle
  /\ LookedAhead(states, get_immediate_lookahead(states, forward_func))
  /\ lastOp' = Op("lookahead", root, NoMove, Len(states), FALSE)
  /\ UNCHANGED << heap, root, forward_func, board_size, action_size,
                  num_search, max_num_searches, temp, evalCalls >>

\* node.is_leaf() asked of every node of the tree by a caller that holds it
IsLeaf ==
  /\ Idle
  /\ ret' = [kind |-> "is_leaf",
             value |-> [n \in 1 .. Len(heap) |-> is_leaf(heap, n)]]
  /\ lastOp' = Op("is_leaf", root, NoMove, 0, FALSE)
  /\ UNCHANGED << heap, root, forward_func, board_size, action_size, pc,
                  num_search, max_num_searches, temp, evalCalls, err >>

Batches ==
  {<< heap[root].state >>,
   << get_init_board(board_size), heap[root].state >>}

Temps == {0, 1}

\* The moves the caller steps with: two stone placements and the pass
StepActions == {0, 1, PassMove}

Next ==
  \/ \E k \in 1 .. MaxSearches, t \in Temps : GetActionProbs(k, t)
  \/ Simulate
  \/ ReturnProbs
  \/ \E action \in StepActions : Step(action)
  \/ Reset
  \/ Collect
  \/ CallerExpands
  \/ \E n \in 1 .. MaxHeap : SelectBestChild(n)
  \/ \E states \in Batches : Lookahead(states)
  \/ IsLeaf

Spec == Init /\ [][Next]_vars

\* ------------------------------------------------------------------ claims
Returned == lastOp.op = "get_action_probs" /\ err = "none"

\* C1: whenever get_action_probs(max_searches, temperature) returns, it
\* returns the pair (pi, searches_performed) with searches_performed =
\* max_searches, which a caller can unpack into two values.
C1_ReturnsPair ==
  Returned => (ret.kind = "pair" /\ ret.searches = lastOp.value)

\* C2: after step(a) the new root's state is
\* get_canonical_form(get_next_state(old_root.state, a), turn of that state).
C2_StepCanonical ==
  lastOp.op = "step" =>
    heap[root].state =
      get_canonical_form(
        get_next_state(heap[lastOp.from].state, lastOp.action),
        get_turn(get_next_state(heap[lastOp.from].state, lastOp.action)))

SumOver(vec) == SumTo(vec, PassMove)

ArgMaxSet(vec) == {a \in Actions : \A b \in Actions : vec[b] <= vec[a]}

\* C4: with temperature 0 the returned pi gives 1 / |S| to every action of
\* S, the actions whose root child has the greatest visit count, and 0 to
\* every other action.
C4_UniformOverArgmax ==
  (Returned /\ lastOp.action = 0) =>
    \A a \in Actions :
      IF a \in ArgMaxSet(RootN(heap, root))
      THEN ret.pi.num[a] * Cardinality(ArgMaxSet(RootN(heap, root)))
             = ret.pi.den
      ELSE ret.pi.num[a] = 0

C4_Witness ==
  /\ Returned /\ lastOp.action = 0
  /\ Cardinality(ArgMaxSet(RootN(heap, root))) = 2
  /\ \E a \in Actions : RootN(heap, root)[a] > 0

\* C5: when get_action_probs(k, .) is over on a freshly constructed tree,
\* it has done k simulations and root.N = k + 1.
C5_RootVisits ==
  (lastOp.op = "get_action_probs" /\ lastOp.had) =>
    (err = "none" /\ heap[root].N = lastOp.value + 1)

\* The node n and its ancestors, n first, the parentless one last
RECURSIVE PathUp(_, _)
PathUp(h, n) ==
  IF h[n].parent = None THEN << n >> ELSE << n >> \o PathUp(h, h[n].parent)

Alternating(j, v) == IF j % 2 = 0 THEN v ELSE -v

BackPropagated(h, h2, path, v) ==
  /\ Len(h2) = Len(h)
  /\ h[path[Len(path)]].parent = None
  /\ \A j \in 1 .. Len(path) :
       h2[path[j]] = [h[path[j]] EXCEPT !.N = @ + 1,
                                        !.Q_sum = @ + Alternating(j - 1, v)]
  /\ \A m \in 1 .. Len(h) :
       (\A j \in 1 .. Len(path) : path[j] # m) => h2[m] = h[m]

StepKeepsOrBootstraps(h, h2, r2, child) ==
  IF child # None /\ h[child].N > 0
  THEN r2 = child /\ h2[r2].N = h[child].N /\ h2[r2].Q_sum = h[child].Q_sum
  ELSE h2[r2].N = 1 /\ h2[r2].Q_sum = h2[r2].V

\* C7: the root never has a parent and always has N >= 1; the root made by
\* construction or reset, or by step into an empty slot or an unvisited
\* child, has N = 1 and Q_sum = V; a child already visited when step chose
\* it keeps its N and Q_sum.
C7_RootBootstrapped ==
  /\ [](heap[root].parent = None /\ heap[root].N >= 1)
  /\ [](lastOp.op \in {"construct", "reset"} =>
          (heap[root].N = 1 /\ heap[root].Q_sum = heap[root].V))
  /\ [][lastOp'.op = "step" =>
          StepKeepsOrBootstraps(heap, heap', root',
                                heap[root].children[lastOp'.action])]_vars

C7_Witness ==
  /\ lastOp.op = "step" /\ lastOp.had
  /\ heap[root].N >= 2

\* The nodes that the children links lead to from the nodes of S
RECURSIVE ReachDown(_, _)
ReachDown(h, S) ==
  IF \A n \in S : \A a \in Actions :
       h[n].children[a] = None \/ h[n].children[a] \in S
  THEN S
  ELSE ReachDown(h, S \cup UNION {{h[n].children[a] :
                                      a \in {b \in Actions :
                                               h[n].children[b] # None}} :
                                   n \in S})

ChildBecameRoot(h, h2, r, r2, child) ==
  /\ r2 = child
  /\ h2[child].parent = None
  /\ h2[child].children = h[child].children
  /\ h2[child].action_probs = h[child].action_probs
  /\ h2[child].V = h[child].V
  /\ h2[child].state = h[child].state
  /\ Len(h2) = Len(h)
  /\ \A m \in 1 .. Len(h) : m # child => h2[m] = h[m]
  /\ r \notin ReachDown(h2, {r2})
  /\ \A a \in Actions :
       (h[r].children[a] # None /\ h[r].children[a] # child)
         => h[r].children[a] \notin ReachDown(h2, {r2})

\* C8: step(a) with root.children[a] present makes that node the root,
\* parentless, with its children links, prior, V and state and every other
\* node (its subtree, the old root, the siblings) unchanged, and neither the
\* old root nor a sibling can be reached from the new root.
C8_StepIntoChild ==
  [][(lastOp'.op = "step" /\ lastOp'.had) =>
       ChildBecameRoot(heap, heap', root, root',
                       heap[root].children[lastOp'.action])]_vars

\* A step into an existing child that has children of its own
C8_Witness ==
  /\ lastOp.op = "step" /\ lastOp.had
  /\ cached_children(heap, root)

FreshRoot(h, r, size, e) ==
  /\ h[r].parent = None
  /\ h[r].children = NoChildren
  /\ h[r].state = get_init_board(size)
  /\ h[r].N = 1
  /\ h[r].Q_sum = h[r].V
  /\ h[r] = Construct(<< >>, get_init_board(size), e).heap[1]

\* C9: reset() leaves a single parentless childless root at
\* get_init_board(board_size) with N = 1 and Q_sum = V, equal to the root of
\* a tree newly constructed there with the same evaluator; board_size and
\* action_size are as before and the root is a node the previous tree did
\* not have.
C9_ResetIsFresh ==
  [][lastOp'.op = "reset" =>
       /\ FreshRoot(heap', root', board_size, forward_func)
       /\ board_size' = board_size
       /\ action_size' = action_size
       /\ forward_func' = forward_func
       /\ root' \notin 1 .. Len(heap)
       /\ ReachDown(heap', {root'}) = {root'}]_vars

C9_Witness ==
  /\ lastOp.op = "reset"
  /\ heap[lastOp.from].state # get_init_board(board_size)
  /\ cached_children(heap, lastOp.from)

\* p + q * sqrt(k) > 0, for integers p, q and k >= 0
SurdPositive(p, q, k) ==
  \/ p > 0 /\ q >= 0
  \/ p >= 0 /\ q > 0 /\ k > 0
  \/ p > 0 /\ q < 0 /\ p * p > q * q * k
  \/ p < 0 /\ q > 0 /\ q * q * k > p * p

\* UCB(a) > UCB(b) at node n, with UCB(a) = avg_Q(a) + c * prior[a] *
\* sqrt(n.N) / (1 + child_a.N), avg_Q(a) = -(child_a.V + child_a.Q_sum) /
\* (1 + n.N) and prior[a] = action_probs[a] / PriorDen: the difference times
\* PriorDen * (1 + n.N) * (1 + child_a.N) * (1 + child_b.N) is positive.
UcbAbove(h, n, a, b) ==
  LET ca == h[n].children[a]
      cb == h[n].children[b]
  IN SurdPositive(
       ((h[cb].V + h[cb].Q_sum) - (h[ca].V + h[ca].Q_sum))
         * PriorDen * (1 + h[ca].N) * (1 + h[cb].N),
       U_CONST * (1 + h[n].N)
         * (h[n].action_probs[a] * (1 + h[cb].N)
            - h[n].action_probs[b] * (1 + h[ca].N)),
       h[n].N)

CanonicalNext(state, a) ==
  get_canonical_form(get_next_state(state, a),
                     get_turn(get_next_state(state, a)))

ExpectedQ(e, state, a) ==
  IF ~get_valid_moves(state)[a] THEN 0
  ELSE IF get_game_ended(CanonicalNext(state, a))
  THEN -Sign(get_areas(CanonicalNext(state, a))[1]
             - get_areas(CanonicalNext(state, a))[2])
  ELSE -EvalValue(e, CanonicalNext(state, a))

\* C11: for each input state, the q-value get_immediate_lookahead returns
\* for action a is 0 when a is illegal, minus the evaluator's value of the
\* canonical next state when a is legal and that state is not terminal, and
\* minus the outcome by areas (+1, -1, 0) when that state is terminal,
\* whatever the evaluator returned for it.
C11_LookaheadQ ==
  ret.kind = "lookahead" =>
    \A j \in 1 .. Len(ret.states) : \A a \in Actions :
      ret.la.batch_qvals[j][a] = ExpectedQ(forward_func, ret.states[j], a)

\* A batch of two states, the second with an illegal action below a legal
\* one and with a terminal next state that the evaluator values otherwise
\* than the areas do
C11_Witness ==
  /\ ret.kind = "lookahead"
  /\ Len(ret.states) = 2
  /\ \E a, b \in Actions :
       /\ a < b
       /\ ~get_valid_moves(ret.states[2])[a]
       /\ get_valid_moves(ret.states[2])[b]
       /\ ~get_game_ended(CanonicalNext(ret.states[2], b))
  /\ \E a \in Actions :
       /\ get_valid_moves(ret.states[2])[a]
       /\ get_game_ended(CanonicalNext(ret.states[2], a))
       /\ EvalValue(forward_func, CanonicalNext(ret.states[2], a))
            # -ExpectedQ(forward_func, ret.states[2], a)

Miscounts(e, n) == NumValues(e, n) # n \/ NumPriors(e, n) # n

MiscountsAt(h, n, e) ==
  /\ ~h[n].terminal
  /\ ~cached_children(h, n)
  /\ Miscounts(e, Len(valid_move_idcs(h[n].state)))

\* C12: when the evaluator answers the lookahead of cache_children with a
\* number of priors or of values other than the number of next states, the
\* call (a search of get_action_probs, or select_best_child) ends with an
\* exception and the tree is as it was: no child added, no N or Q_sum
\* changed.
C12_MiscountLeavesTree ==
  [][/\ (pc = "search" /\ num_search < max_num_searches
          /\ MiscountsAt(heap, StopNode(heap, root, forward_func),
                         forward_func)
          /\ visited(heap, StopNode(heap, root, forward_func)))
         => (err' \in {"IndexError", "AssertionError"} /\ heap' = heap)
     /\ (lastOp'.op = "select_best_child"
          /\ MiscountsAt(heap, lastOp'.from, forward_func))
         => (err' \in {"IndexError", "AssertionError"} /\ heap' = heap)
    ]_vars

C12_Witness ==
  /\ lastOp.op = "get_action_probs"
  /\ err = "AssertionError"
  /\ MiscountsAt(heap, root, forward_func)

\* C13: after cache_children ran on a non-terminal node (select_best_child
\* called on a node without children, the evaluator answering with the
\* right number of outputs), every legal action a has in slot a a child
\* whose V is the lookahead's q-value of a, whose prior is the evaluator's
\* prior for the next state of a, and whose state is the canonical next
\* state of a.
C13_ChildrenByAction ==
  (lastOp.op = "select_best_child" /\ lastOp.had
     /\ ~heap[lastOp.from].terminal
     /\ ~Miscounts(forward_func,
                   Len(valid_move_idcs(heap[lastOp.from].state)))) =>
    \A a \in Actions :
      get_valid_moves(heap[lastOp.from].state)[a] =>
        /\ heap[lastOp.from].children[a] # None
        /\ heap[heap[lastOp.from].children[a]].init
        /\ heap[heap[lastOp.from].children[a]].V
             = ExpectedQ(forward_func, heap[lastOp.from].state, a)
        /\ heap[heap[lastOp.from].children[a]].action_probs
             = EvalPrior(forward_func,
                         CanonicalNext(heap[lastOp.from].state, a))
        /\ heap[heap[lastOp.from].children[a]].state
             = CanonicalNext(heap[lastOp.from].state, a)

C15_ChildrenInLegalSlots ==
  (lastOp.op = "select_best_child" /\ lastOp.had
     /\ ~heap[lastOp.from].terminal
     /\ ~Miscounts(forward_func,
                   Len(valid_move_idcs(heap[lastOp.from].state)))) =>
    \A a \in Actions :
      IF get_valid_moves(heap[lastOp.from].state)[a]
      THEN /\ heap[lastOp.from].children[a] # None
           /\ heap[heap[lastOp.from].children[a]].init
           /\ heap[heap[lastOp.from].children[a]].parent = lastOp.from
           /\ heap[heap[lastOp.from].children[a]].N = 0
           /\ heap[heap[lastOp.from].children[a]].Q_sum = 0
      ELSE heap[lastOp.from].children[a] = None

\* C16: no terminal node has a child; select_best_child called on a
\* terminal node leaves the tree as it is (its cache_children returns at
\* once); a search whose descent arrives at a terminal node stops there
\* without an exception and back-propagates from it.
C16_TerminalChildless ==
  /\ [](\A n \in 1 .. Len(heap) :
          heap[n].terminal => ~cached_children(heap, n))
  /\ [][(lastOp'.op = "select_best_child" /\ heap[lastOp'.from].terminal)
          => heap' = heap]_vars
  /\ [][(pc = "search" /\ num_search < max_num_searches
          /\ heap[StopNode(heap, root, forward_func)].terminal)
          => (err' = "none"
              /\ lastOp'.from = StopNode(heap, root, forward_func))]_vars

\* A search stopped at a terminal child that an earlier search had reached
C16_Witness ==
  /\ lastOp.op = "search"
  /\ heap[lastOp.from].terminal
  /\ heap[lastOp.from].parent # None
  /\ heap[lastOp.from].N >= 2

\* C17: is_leaf() is true exactly when the node has N = 0 or the visit
\* counts of its children sum to 0 or less; so a node with N = 0 is a leaf
\* and a node with N >= 1 and a visited child is not.
C17_IsLeaf ==
  ret.kind = "is_leaf" =>
    \A n \in 1 .. Len(heap) :
      ret.value[n] <=> (heap[n].N = 0 \/ SumOver(RootN(heap, n)) <= 0)

\* Asked on a tree with an unvisited node, a node visited once that has
\* children, and a node with a visited child
C17_Witness ==
  /\ ret.kind = "is_leaf"
  /\ \E n \in 1 .. Len(heap) : heap[n].N = 0
  /\ \E n \in 1 .. Len(heap) : heap[n].N = 1 /\ cached_children(heap, n)
  /\ \E n \in 1 .. Len(heap) : heap[n].N >= 2 /\ ~ret.value[n]

\* C18: every pass of the loop of get_action_probs (the evaluator answering
\* with the right number of outputs) reaches a node to stop at, back-propagates
\* once and ends, so that the number of searches done grows by one until the
\* k-th, after which the call returns.
C18_EverySearchEnds ==
  [][(pc = "search" /\ forward_func \notin Miscounting) =>
       \/ pc' = "search" /\ num_search' = num_search + 1
                         /\ lastOp'.op = "search"
       \/ pc' = "idle" /\ num_search = max_num_searches
                       /\ lastOp'.op = "get_action_probs"]_vars

\* C19: a get_action_probs(k, temp) calls forward_func at most k times: at
\* most once in each search it has begun, never in a search that expands
\* nothing.
C19_EvaluatorCalls ==
  /\ pc = "search" => evalCalls <= num_search
  /\ (pc = "raised" /\ lastOp.op = "get_action_probs") =>
       evalCalls <= num_search + 1
  /\ lastOp.op = "get_action_probs" => evalCalls <= lastOp.value

\* A call of two or more searches whose first expanded nothing and made no
\* call, and whose last made the one call of its expansion
C19_Witness ==
  /\ lastOp.op = "get_action_probs"
  /\ num_search >= 1
  /\ evalCalls = 1

\* C20: between operations, every non-terminal node that the children links
\* reach from the root and that was visited has N = 1 + the sum of its
\* children's N: its own value was back-propagated once, every later visit
\* went on to a child.
C20_VisitsAddUp ==
  (pc \in {"idle", "replaced"} /\ err = "none") =>
    \A n \in ReachDown(heap, {root}) :
      (~heap[n].terminal /\ heap[n].N >= 1) =>
        heap[n].N = 1 + SumOver(RootN(heap, n))

\* After a get_action_probs that returned: a root visited by two searches or
\* more that went on to children, one of them visited more than once
C20_Witness ==
  /\ Returned
  /\ ~heap[root].terminal
  /\ heap[root].N >= 3
  /\ \E a \in Actions :
       /\ heap[root].children[a] # None
       /\ ~heap[heap[root].children[a]].terminal
       /\ heap[heap[root].children[a]].N >= 2

\* C21: a get_action_probs(k, temp) on a non-terminal root (the evaluator
\* answering with the right number of outputs) returns a pi that is a
\* probability distribution, entries >= 0 summing to 1, with 0 for every
\* action that is illegal in the root's state.
C21_LegalDistribution ==
  (lastOp.op = "get_action_probs" /\ ~heap[lastOp.from].terminal
     /\ forward_func \notin Miscounting) =>
    /\ err = "none"
    /\ ret.kind = "array"
    /\ ret.pi.den > 0
    /\ \A a \in Actions : ret.pi.num[a] >= 0
    /\ SumOver(ret.pi.num) = ret.pi.den
    /\ \A a \in Actions :
         ~get_valid_moves(heap[lastOp.from].state)[a] => ret.pi.num[a] = 0

====
